---- MODULE Spec2Model ----
(***************************************************************************)
(* A model of qcodes.dataset.dond.do_nd: the sweep planner (_Sweeper), the *)
(* measurement grouper (_extract_paramters_by_type_and_group), the         *)
(* conditional parameter set and the execution loop of dond.               *)
(*                                                                         *)
(* Parameters, measured entities and post actions are identified by        *)
(* integers; setpoint values are integers.                                 *)
(***************************************************************************)
EXTENDS Integers, Sequences, FiniteSets, TLC

VARIABLES
    pc,                   \* position of the modelled call
    sweep_instances,      \* dond: the sweeps parsed from *params
    additional_setpoints, \* dond: additional_setpoints argument
    sweeper,              \* the attributes of the _Sweeper under construction
    params_meas,          \* dond: the measured entities and bundles parsed from *params
    experiments,          \* dond: the exp argument
    measurements,         \* the attributes of the _Measurements object
    params_meas_caller,   \* the entities the Parameter Value Caller was built from
    meas_value_pair,      \* what the last call of the caller returned
    cache,                \* parameter -> its cached (last known) value
    events,               \* the calls made on the collaborators, in order
    request,              \* the arguments of the _conditional_parameter_set call
    meas_list,            \* dond: the Measurement objects, one per measurement group
    datasavers,           \* dond: whether the local name datasavers is bound
    stack,                \* the number of writers entered into the ExitStack
    writers,              \* writer -> its rows, times finalized, times plotted
    additional_setpoints_data, \* dond: the additional setpoints' pairs
    previous_setpoints,   \* dond: the row of the preceding iteration
    point,                \* the grid point (row of nested_setpoints) to process next
    interrupted,          \* the exception recorded by the interrupt guard
    exc,                  \* the exception in flight
    teardown,             \* the finalize and plot calls, in order
    result                \* what dond returned

(***************************************************************************)
(* Bounds of the explored inputs.                                          *)
(***************************************************************************)
MaxSweeps == 2
MaxPoints == 3
MaxAdd == 1
MaxMeas == 4
MaxBundle == 2
MaxSetCalls == 3
MaxRows == 4
MaxRunPoints == 2
MaxGrid == 6
MaxExp == 2
Values == {0, 1}
MultiSweepSizes == 1..2

Unset == [ok |-> FALSE, val |-> <<>>]
Ok(v) == [ok |-> TRUE, val |-> v]
Raised(e) == [ok |-> FALSE, val |-> e]

RECURSIVE Product(_)
Product(s) == IF s = <<>> THEN 1 ELSE Head(s) * Product(Tail(s))

RECURSIVE Concat(_)
Concat(ss) == IF ss = <<>> THEN <<>> ELSE Head(ss) \o Concat(Tail(ss))

Min(a, b) == IF a < b THEN a ELSE b

(***************************************************************************)
(* Sweep descriptors.  AbstractSweep lives in qcodes.dataset.dond.sweeps;  *)
(* it offers param, delay, post_actions, num_points and get_setpoints().   *)
(***************************************************************************)
AbstractSweep(p, vals) ==
    [kind |-> "sweep", param |-> p, setpoints |-> vals,
     delay |-> p, post_actions |-> <<p>>]

MultiSweep(sweeps) == [kind |-> "multi", sweeps |-> sweeps]

isAbstractSweep(sweep) == sweep.kind = "sweep"

\* AbstractSweep.num_points
num_points(sweep) == Len(sweep.setpoints)

\* AbstractSweep.get_setpoints: a numeric array
get_setpoints(sweep) == Ok([dtype |-> "num", data |-> sweep.setpoints])

\* MultiSweep.num_points
MultiSweep_num_points(m) == num_points(m.sweeps[1])

\* MultiSweep.get_setpoints: an object array of tuples, as long as the first
\* member's setpoints; indexing a shorter member raises IndexError.
MultiSweep_get_setpoints(m) ==
    LET n == Len(m.sweeps[1].setpoints)
    IN  IF \E j \in 1..Len(m.sweeps) : Len(m.sweeps[j].setpoints) < n
        THEN Raised("IndexError")
        ELSE Ok([dtype |-> "O",
                 data |-> [i \in 1..n |->
                             [j \in 1..Len(m.sweeps) |-> m.sweeps[j].setpoints[i]]]])

AnyNumPoints(sweep) ==
    IF isAbstractSweep(sweep) THEN num_points(sweep) ELSE MultiSweep_num_points(sweep)

AnyGetSetpoints(sweep) ==
    IF isAbstractSweep(sweep) THEN get_setpoints(sweep) ELSE MultiSweep_get_setpoints(sweep)

(***************************************************************************)
(* numpy: meshgrid(indexing="ij"), ravel(order="C"), vstack(...).T         *)
(***************************************************************************)
\* Fortran order: the first index varies fastest
RECURSIVE UnravelF(_, _)
UnravelF(f, shape) ==
    IF shape = <<>> THEN <<>>
    ELSE <<f % Head(shape)>> \o UnravelF(f \div Head(shape), Tail(shape))

\* the index tuple (0-based) of flat offset f in an array of the given shape,
\* C order: the last index varies fastest
RECURSIVE UnravelC(_, _)
UnravelC(f, shape) ==
    IF shape = <<>> THEN <<>>
    ELSE LET n == Len(shape)
             last == shape[n]
         IN  Append(UnravelC(f \div last, SubSeq(shape, 1, n - 1)), f % last)

\* np.meshgrid(*xs, indexing="ij")[k] at index tuple idx
MeshgridAt(xs, k, idx) == xs[k][idx[k] + 1]

\* np.ravel(np.meshgrid(*xs, indexing="ij")[k], order="C")
RavelMeshgrid(xs, k) ==
    LET shape == [j \in 1..Len(xs) |-> Len(xs[j])]
    IN  [f \in 1..Product(shape) |-> MeshgridAt(xs, k, UnravelC(f - 1, shape))]

\* np.vstack(cols).T : row f holds the f-th element of every column
VstackT(cols) ==
    [f \in 1..Len(cols[1]) |-> [c \in 1..Len(cols) |-> cols[c][f]]]

(***************************************************************************)
(* _Sweeper                                                                *)
(***************************************************************************)
\* _Sweeper._flatten_setpoint_values (setpoint_values: the arrays with dtype)
_flatten_setpoint_values(setpoint_values) ==
    LET xs == [k \in 1..Len(setpoint_values) |-> setpoint_values[k].data]
        flat == [k \in 1..Len(xs) |-> RavelMeshgrid(xs, k)]
        expand(k) ==
            IF setpoint_values[k].dtype = "O"
            THEN [i \in 1..Len(flat[k][1]) |->
                    [j \in 1..Len(flat[k]) |-> flat[k][j][i]]]
            ELSE <<flat[k]>>
        new_flat_grids == Concat([k \in 1..Len(xs) |-> expand(k)])
    IN  VstackT(new_flat_grids)

\* _Sweeper._make_nested_setpoints
_make_nested_setpoints(sweeps) ==
    IF Len(sweeps) = 0 THEN Ok(<< <<>> >>)
    ELSE LET got == [k \in 1..Len(sweeps) |-> AnyGetSetpoints(sweeps[k])]
         IN  IF \E k \in 1..Len(sweeps) : ~got[k].ok
             THEN Raised("IndexError")
             ELSE Ok(_flatten_setpoint_values([k \in 1..Len(sweeps) |-> got[k].val]))

\* _Sweeper.__init__, lines 83-88: the elementary sweeps, composites expanded
FlatSweeps(sweeps) ==
    Concat([k \in 1..Len(sweeps) |->
              IF isAbstractSweep(sweeps[k]) THEN <<sweeps[k]>> ELSE sweeps[k].sweeps])

\* a shape with one entry per elementary sweep, composites expanded
_make_shape_flat(sweeps, addtional_setpoints) ==
    [k \in 1..Len(FlatSweeps(sweeps)) |-> num_points(FlatSweeps(sweeps)[k])]
        \o [j \in 1..Len(addtional_setpoints) |-> 1]

\* _Sweeper._make_shape
_make_shape(sweeps, addtional_setpoints) ==
    [k \in 1..Len(sweeps) |-> AnyNumPoints(sweeps[k])]
        \o [j \in 1..Len(addtional_setpoints) |-> 1]

(***************************************************************************)
(* _Measurements: the measured entities and their groups.  A measured      *)
(* input is a sequence of items, an item being a bare entity or a bundle   *)
(* (a sequence of entities).  A dict is a sequence of entries in insertion *)
(* order; the key "group_i" is the integer i.                              *)
(***************************************************************************)
Bare(e) == [bundle |-> FALSE, es |-> <<e>>]
Bundle(es) == [bundle |-> TRUE, es |-> es]

\* isinstance(entity, ParameterBase): the other entities are bare callables
isParameterBase(e) == e % 3 # 0

measurement_name == "results"

\* d[key] = val for a dict: replace the value of an existing key in place
DictSet(d, key, val) ==
    IF \E i \in 1..Len(d) : d[i].key = key
    THEN [i \in 1..Len(d) |-> IF d[i].key = key THEN val ELSE d[i]]
    ELSE Append(d, val)

DictHas(d, key) == \E i \in 1..Len(d) : d[i].key = key
DictGet(d, key) == d[CHOOSE i \in 1..Len(d) : d[i].key = key]

ParameterGroup(key, params) ==
    [key |-> key, params |-> params, meas_name |-> measurement_name,
     measured_params |-> <<>>]

\* lines 599-610: one pass over params_meas
RECURSIVE ExtractLoop(_, _)
ExtractLoop(items, acc) ==
    IF items = <<>> THEN acc
    ELSE LET param == Head(items)
             next ==
                 IF ~param.bundle
                 THEN [acc EXCEPT
                         !.single_group = Append(@, param.es[1]),
                         !.measured_all = Append(@, param.es[1]),
                         !.measured_parameters =
                             IF isParameterBase(param.es[1])
                             THEN Append(@, param.es[1]) ELSE @]
                 ELSE [acc EXCEPT
                         !.multi_group = Append(@, param.es),
                         !.measured_all = @ \o param.es,
                         !.measured_parameters =
                             @ \o SelectSeq(param.es, isParameterBase)]
         IN  ExtractLoop(Tail(items), next)

\* lines 618-625 with the groups of the bundles numbered from `index` on (enumerate)
RECURSIVE AddMultiGroups(_, _, _)
AddMultiGroups(grouped, multi_group, index) ==
    IF multi_group = <<>> THEN grouped
    ELSE AddMultiGroups(DictSet(grouped, index, ParameterGroup(index, Head(multi_group))),
                        Tail(multi_group), index + 1)

\* the entities listed bare first, then the bundles' entities
ExtractBareFirst(items) ==
    LET acc == ExtractLoop(items, [single_group |-> <<>>, multi_group |-> <<>>,
                                   measured_all |-> <<>>, measured_parameters |-> <<>>])
    IN  [acc EXCEPT !.measured_all = acc.single_group \o Concat(acc.multi_group)]

\* lines 594-610
ExtractPass(items) ==
    ExtractLoop(items, [single_group |-> <<>>, multi_group |-> <<>>,
                        measured_all |-> <<>>, measured_parameters |-> <<>>])

\* _extract_paramters_by_type_and_group
_extract_paramters_by_type_and_group(items) ==
    LET acc == ExtractPass(items)
        g0 == IF acc.single_group # <<>>
              THEN DictSet(<<>>, 0, ParameterGroup(0, acc.single_group))
              ELSE <<>>
        grouped == AddMultiGroups(g0, acc.multi_group, 0)
    IN  [measured_all |-> acc.measured_all,
         grouped_parameters |-> grouped,
         measured_parameters |-> acc.measured_parameters]

\* the Parameter Value Caller, called at grid point k: one (entity, value)
\* pair per entity it was built from, in that order
MeasuredValue(e, k) == 100 * k + e
call_params_meas(caller, k) == [i \in 1..Len(caller) |-> <<caller[i], MeasuredValue(caller[i], k)>>]

InSeq(x, seq) == \E i \in 1..Len(seq) : seq[i] = x

\* dond, lines 387-391: the pairs of each group, in the order of the call's result
RouteMeasured(grouped, pairs) ==
    [g \in 1..Len(grouped) |->
        [grouped[g] EXCEPT !.measured_params =
            LET mine(pair) == InSeq(pair[1], grouped[g].params)
            IN  SelectSeq(pairs, mine)]]

\* _Sweeper._make_parameter_groups, lines 116-122: one sweep added to the groups
AddToGroups(groups, sweep) ==
    IF isAbstractSweep(sweep)
    THEN [i \in 1..Len(groups) |-> [groups[i] EXCEPT !.params = Append(@, sweep.param)]]
    ELSE [i \in 1..Len(groups) |->
            IF i <= Len(sweep.sweeps)
            THEN [groups[i] EXCEPT !.params = Append(@, sweep.sweeps[i].param)]
            ELSE groups[i]]

RECURSIVE AddAllToGroups(_, _)
AddAllToGroups(groups, sweeps) ==
    IF sweeps = <<>> THEN groups
    ELSE AddAllToGroups(AddToGroups(groups, Head(sweeps)), Tail(sweeps))

\* _Sweeper._make_parameter_groups: the dict group_i -> parameters
_make_parameter_groups(sweeps, additional) ==
    LET grouped_sweeps ==
            Concat([i \in 1..Len(sweeps) |->
                      IF isAbstractSweep(sweeps[i]) THEN <<>> ELSE sweeps[i].sweeps])
        n_groups == IF Len(grouped_sweeps) = 0 THEN 1 ELSE Len(grouped_sweeps)
        groups == AddAllToGroups([i \in 1..n_groups |-> [key |-> i - 1, params |-> <<>>]],
                                 sweeps)
    IN  [i \in 1..n_groups |-> [groups[i] EXCEPT !.params = @ \o additional]]

\* _Sweeper.__init__, lines 91-93: a MultiSweep has no delay, param or post_actions
LoopData(sweeps) ==
    IF \E i \in 1..Len(sweeps) : ~isAbstractSweep(sweeps[i])
    THEN Raised("AttributeError")
    ELSE Ok([post_delays |-> [i \in 1..Len(sweeps) |-> sweeps[i].delay],
             params_set |-> [i \in 1..Len(sweeps) |-> sweeps[i].param],
             post_actions |-> [i \in 1..Len(sweeps) |-> sweeps[i].post_actions]])

\* _Sweeper(sweeps, additional_setpoints): the object, or the error raised
Sweeper(sweeps, additional) ==
    LET nested == _make_nested_setpoints(sweeps)
        loop == LoopData(sweeps)
    IN  IF ~nested.ok THEN nested
        ELSE IF ~loop.ok THEN loop
        ELSE Ok([nested_setpoints |-> nested,
                 parameter_groups |-> Ok(_make_parameter_groups(sweeps, additional)),
                 shape |-> Ok(_make_shape(sweeps, additional)),
                 sweeps |-> Ok(FlatSweeps(sweeps)),
                 post_delays |-> Ok(loop.val.post_delays),
                 params_set |-> Ok(loop.val.params_set),
                 post_actions |-> Ok(loop.val.post_actions)])

(***************************************************************************)
(* Parameters.  A parameter has a cache holding its last known value       *)
(* (NoneVal until it is first set); set(value) writes to the hardware and, *)
(* unless the hardware fails, updates the cache.                           *)
(***************************************************************************)
NoneVal == -1

Event(op, who, val) == [op |-> op, who |-> who, val |-> val]

\* parameter.cache.get()
cache_get(c, parameter) == c[parameter]

\* parameter.set(value): the hardware write and the new cache
Parameter_set(st, parameter, value, fails) ==
    [cache |-> IF fails THEN st.cache ELSE [st.cache EXCEPT ![parameter] = value],
     events |-> Append(st.events, Event("set", parameter, value))]

\* a set whatever the cache holds
_unconditional_parameter_set(st, parameter, value, fails) ==
    Parameter_set(st, parameter, value, fails)

\* _conditional_parameter_set; st holds the cache and the events so far
_conditional_parameter_set(st, parameter, value, fails) ==
    IF value # cache_get(st.cache, parameter)
    THEN Parameter_set(st, parameter, value, fails)
    ELSE st

(***************************************************************************)
(* dond: the collaborators of the execution loop.                          *)
(***************************************************************************)
\* detect_shape_of_measurement cannot tell the shape of every parameter
ShapeDetectable(p) == p % 2 = 1

NoShapes == [known |-> FALSE, shape |-> <<>>]

\* detect_shape_of_measurement(measured_parameters, sweeper.shape)
detect_shape_of_measurement(measured_parameters, shape) ==
    IF \E i \in 1..Len(measured_parameters) : ~ShapeDetectable(measured_parameters[i])
    THEN Raised("TypeError")
    ELSE Ok([known |-> TRUE, shape |-> shape])

\* no except clause: the TypeError of the shape detection propagates
detect_shapes_without_fallback(detected) == detected

\* dond, lines 318-328: shapes is None when the shape detection raises TypeError
detect_shapes_with_fallback(detected) ==
    IF ~detected.ok /\ detected.val = "TypeError" THEN Ok(NoShapes) ELSE detected

\* the setpoint groups as given, never broadcast
setpoint_groups_as_given(setpoint_groups, grouped_parameters) == setpoint_groups

\* _create_measurements_grouped, lines 560-564: a single setpoint group is
\* given to every measurement group
broadcast_setpoint_groups(setpoint_groups, grouped_parameters) ==
    IF Len(setpoint_groups) = 1
    THEN [i \in 1..Len(grouped_parameters) |->
            [key |-> grouped_parameters[i].key,
             params |-> setpoint_groups[1].params]]
    ELSE setpoint_groups

\* the number of experiments is not checked
experiments_unchecked(exps, grouped_parameters) ==
    [i \in 1..Len(grouped_parameters) |-> IF exps.seq THEN i ELSE exps.n]

\* _create_measurements_grouped, lines 546-551: experiments_internal, one
\* experiment per group unless a sequence was given (0: None, 1: the single
\* Experiment, i: the i-th of the sequence)
experiments_internal(exps, grouped_parameters) ==
    IF ~exps.seq
    THEN [i \in 1..Len(grouped_parameters) |-> exps.n]
    ELSE [i \in 1..exps.n |-> i]

\* _create_measurements_grouped, lines 546-585: one Measurement per group,
\* with its experiment, its setpoints and the shapes registered for it
_create_measurements_grouped(setpoint_groups, exps, grouped_parameters, shapes) ==
    LET internal == experiments_internal(exps, grouped_parameters)
        broadcast == broadcast_setpoint_groups(setpoint_groups, grouped_parameters)
    IN  IF Len(internal) # Len(grouped_parameters)
        THEN Raised("ValueError")
        ELSE IF Len(broadcast) # Len(grouped_parameters)
        THEN Raised("ValueError")
        ELSE IF \E i \in 1..Len(grouped_parameters) :
                    ~DictHas(broadcast, grouped_parameters[i].key)
        THEN Raised("KeyError")
        ELSE Ok([i \in 1..Len(grouped_parameters) |->
                   [name |-> grouped_parameters[i].meas_name,
                    exp |-> internal[i],
                    setpoints |-> DictGet(broadcast, grouped_parameters[i].key).params,
                    params |-> grouped_parameters[i].params,
                    shapes |-> shapes]])

\* process_params_meas(additional_setpoints), read at grid point t (0: before the loop)
process_params_meas(params, t) ==
    [j \in 1..Len(params) |-> <<params[j], MeasuredValue(params[j], t)>>]

\* the additional setpoints are read again for the row of grid point t
additional_setpoints_reread(data, params, t) == process_params_meas(params, t)

\* dond, line 399: the row of grid point t gets *additional_setpoints_data,
\* the pairs bound at line 355
additional_setpoints_of_row(data, params, t) == data

\* _catch_interrupts().__exit__: the guard records a keyboard interrupt or a
\* break, and swallows only the break
catch_interrupts_exit(e) ==
    [interrupted |-> IF e \in {"KeyboardInterrupt", "BreakConditionInterrupt"}
                     THEN e ELSE "None",
     exc |-> IF e = "BreakConditionInterrupt" THEN "None" ELSE e]

\* the contexts are left in the order they were entered
ExitStackCloseInOrder(n) == [i \in 1..n |-> Event("finalize", i, 0)]

\* the first context entered is never left
ExitStackCloseButFirst(n) == [i \in 1..n - 1 |-> Event("finalize", n + 1 - i, 0)]

\* ExitStack.__exit__: the contexts entered are left last-in first-out
ExitStackClose(n) == [i \in 1..n |-> Event("finalize", n + 1 - i, 0)]

\* _handle_plotting(datasaver.dataset, do_plot, interrupted()): the dataset is
\* rendered, told whether the run was interrupted
_handle_plotting(dataset, flag) ==
    Event("plot", dataset, IF flag = "None" THEN 0 ELSE 1)

\* the plotting is never told of an interruption
PlotDatasaversUnflagged(n, flag) ==
    [i \in 1..n |-> _handle_plotting(i, "None")]

\* only the first datasaver's dataset is plotted
PlotFirstDatasaver(n, flag) ==
    [i \in 1..Min(n, 1) |-> _handle_plotting(i, flag)]

\* dond, lines 407-413: every datasaver's dataset is plotted, in turn
PlotDatasavers(n, flag) ==
    [i \in 1..n |-> _handle_plotting(i, flag)]

\* three tuples whatever the number of groups
dond_return_tuples(n_groups, datasets) == [kind |-> "tuples", datasets |-> datasets]

\* dond, lines 415-418: the triple of the only group, or the tuples
dond_return(n_groups, datasets) ==
    IF n_groups = 1
    THEN [kind |-> "triple", datasets |-> <<datasets[1]>>]
    ELSE [kind |-> "tuples", datasets |-> datasets]

\* the break condition's result is ignored
ignore_break_condition(met) == "None"

\* the break condition raises an ordinary error
error_on_break_condition(met) == IF met THEN "Error" ELSE "None"

\* dond, lines 402-404: what the poll of the break condition raises
raise_on_break_condition(met) ==
    IF met THEN "BreakConditionInterrupt" ELSE "None"

\* no change detection: every dimension's actions and delay are selected
_select_all_actions_delays(actions, delays, setpoints, previous, guess) ==
    [actions |-> [ind \in 1..Len(setpoints) |-> actions[ind]],
     delays |-> [ind \in 1..Len(setpoints) |-> delays[ind]]]

\* _select_active_actions_delays.  previous is the row of the preceding
\* iteration or, at the first point, the np.empty array of line 356, whose
\* content is whatever the memory held: guess[ind] is then the outcome of
\* new_setpoint != old_setpoint.
_select_active_actions_delays(actions, delays, setpoints, previous, guess) ==
    LET n == Min(Len(setpoints), previous.len)
        differs(ind) ==
            IF previous.init THEN setpoints[ind] # previous.val[ind] ELSE guess[ind]
    IN  [actions |-> [ind \in 1..Len(setpoints) |->
                        IF ind <= n /\ differs(ind) THEN actions[ind] ELSE <<>>],
         delays |-> [ind \in 1..Len(setpoints) |->
                        IF ind <= n /\ differs(ind) THEN delays[ind] ELSE 0]]

NoFault == [step |-> "none", at |-> 0, exc |-> "None"]
Fault(step, at, e) == [step |-> step, at |-> at, exc |-> e]
FaultIs(fault, step, at) == fault.step = step /\ fault.at = at

\* dond, lines 369-384 from dimension d on.  it: the iteration's params_set,
\* setpoints, active actions, delays and sweep groups; st: the cache, the
\* events, param_set_dict and whether a call has raised.
RECURSIVE SetLoop(_, _, _, _)
SetLoop(d, st, it, fault) ==
    IF d > it.n \/ st.raised THEN st
    ELSE LET setpoint_param == it.params_set[d]
             setpoint == it.setpoints[d]
             s1 == _conditional_parameter_set([cache |-> st.cache, events |-> st.events],
                                              setpoint_param, setpoint,
                                              FaultIs(fault, "set", d))
             psd == [g \in 1..Len(it.groups) |->
                        IF InSeq(setpoint_param, it.groups[g].params)
                        THEN Append(st.psd[g], <<setpoint_param, setpoint>>)
                        ELSE st.psd[g]]
             acts == [a \in 1..(IF FaultIs(fault, "act", d) THEN 1 ELSE Len(it.actions[d]))
                        |-> Event("act", d, it.actions[d][a])]
             slept == IF FaultIs(fault, "act", d) THEN <<>>
                      ELSE <<Event("sleep", d, it.delays[d])>>
         IN  IF FaultIs(fault, "set", d)
             THEN [st EXCEPT !.cache = s1.cache, !.events = s1.events, !.raised = TRUE]
             ELSE SetLoop(d + 1,
                          [cache |-> s1.cache,
                           events |-> s1.events \o acts \o slept,
                           psd |-> psd,
                           raised |-> FaultIs(fault, "act", d)],
                          it, fault)

\* dond, line 395: param_set_dict is a defaultdict(list)
ParamSetOf(groups, psd, ind) ==
    IF DictHas(groups, ind)
    THEN psd[CHOOSE g \in 1..Len(groups) : groups[g].key = ind]
    ELSE <<>>

\* every datasaver gets its row twice
AddLoopTwice(w, st, rows, fault) ==
    [st EXCEPT
        !.events = @ \o [i \in 1..Len(st.writers) |-> Event("add", i - 1, 0)],
        !.writers = [i \in 1..Len(st.writers) |->
                        [st.writers[i] EXCEPT !.rows = @ \o <<rows[i], rows[i]>>]]]

\* only the first datasaver gets its row
AddLoopFirstWriter(w, st, rows, fault) ==
    IF st.writers = <<>> THEN st
    ELSE [st EXCEPT
            !.events = Append(@, Event("add", 0, 0)),
            !.writers[1].rows = IF FaultIs(fault, "add", 0) THEN @ ELSE Append(@, rows[1]),
            !.raised = FaultIs(fault, "add", 0)]

\* dond, lines 393-400 from writer w on: one add_result per datasaver
RECURSIVE AddLoop(_, _, _, _)
AddLoop(w, st, rows, fault) ==
    IF w > Len(st.writers) \/ st.raised THEN st
    ELSE AddLoop(w + 1,
                 [st EXCEPT
                    !.events = Append(@, Event("add", w - 1, 0)),
                    !.writers[w].rows =
                        IF FaultIs(fault, "add", w - 1) THEN @ ELSE Append(@, rows[w]),
                    !.raised = FaultIs(fault, "add", w - 1)],
                 rows, fault)

(***************************************************************************)
(* The inputs explored: plans of at most MaxSweeps axes and at most MaxGrid *)
(* grid points, an axis being an AbstractSweep of at most MaxPoints points *)
(* or a MultiSweep; the elementary sweeps get the parameters               *)
(* 1, 2, ... in flattening order, and parameter p's i-th setpoint is       *)
(* 10 * p + i - 1, so that all setpoints of a plan are distinct.           *)
(***************************************************************************)
Symbolic(p, n) == [i \in 1..n |-> 10 * p + i - 1]

AxisShapes ==
    {[multi |-> FALSE, lens |-> <<n>>] : n \in 1..MaxPoints}
        \cup {[multi |-> TRUE, lens |-> l] :
                l \in UNION {[1..m -> 1..MaxPoints] : m \in MultiSweepSizes}}

PlanShapes ==
    {s \in UNION {[1..n -> AxisShapes] : n \in 0..MaxSweeps} :
        Product([i \in 1..Len(s) |-> s[i].lens[1]]) <= MaxGrid}

RECURSIVE BuildSweeps(_, _)
BuildSweeps(shapes, nextp) ==
    IF shapes = <<>> THEN <<>>
    ELSE LET a == Head(shapes)
             m == Len(a.lens)
             members == [j \in 1..m |-> AbstractSweep(nextp + j - 1,
                                                      Symbolic(nextp + j - 1, a.lens[j]))]
         IN  <<IF a.multi THEN MultiSweep(members) ELSE members[1]>>
                 \o BuildSweeps(Tail(shapes), nextp + m)

PlanInputs == {BuildSweeps(s, 1) : s \in PlanShapes}

AdditionalInputs == {[j \in 1..n |-> 90 + j] : n \in 0..MaxAdd}

(***************************************************************************)
(* The measured inputs explored: at most MaxMeas items, bundles of at most *)
(* MaxBundle entities; the entities are 21, 22, ... in traversal order.    *)
(***************************************************************************)
ItemShapes == {[bundle |-> FALSE, n |-> 1]} \cup {[bundle |-> TRUE, n |-> n] : n \in 1..MaxBundle}

MeasShapes == UNION {[1..n -> ItemShapes] : n \in 1..MaxMeas}

RECURSIVE BuildMeas(_, _)
BuildMeas(shapes, nexte) ==
    IF shapes = <<>> THEN <<>>
    ELSE LET a == Head(shapes)
             es == [j \in 1..a.n |-> nexte + j - 1]
         IN  <<IF a.bundle THEN Bundle(es) ELSE Bare(es[1])>>
                 \o BuildMeas(Tail(shapes), nexte + a.n)

MeasInputs == {BuildMeas(s, 21) : s \in MeasShapes}

(***************************************************************************)
(* The runs explored: plans of AbstractSweeps of at most MaxRunPoints       *)
(* setpoints drawn from Values and a grid of at most MaxRows points (the   *)
(* loop only compares setpoints for equality, so every axis starts at 0),  *)
(* at most two measured entities, at most one additional setpoint.         *)
(***************************************************************************)
RunAxes ==
    {s \in UNION {[1..n -> Values] : n \in 1..MaxRunPoints} : s[1] = 0}

RunPlans ==
    {[i \in 1..Len(axes) |-> AbstractSweep(i, axes[i])] :
        axes \in {a \in UNION {[1..n -> RunAxes] : n \in 0..MaxSweeps} :
                    Product([i \in 1..Len(a) |-> Len(a[i])]) <= MaxRows}}

RunMeasInputs == {m \in MeasInputs : Len(Concat([i \in 1..Len(m) |-> m[i].es])) <= 2}

RunAdditionalInputs == {a \in AdditionalInputs : Len(a) <= 1}

vars == <<pc, sweep_instances, additional_setpoints, sweeper,
          params_meas, experiments, measurements, params_meas_caller, meas_value_pair,
          cache, events, request,
          meas_list, datasavers, stack, writers, additional_setpoints_data,
          previous_setpoints, point, interrupted, exc, teardown, result>>

NoSweeper ==
    [nested_setpoints |-> Unset, parameter_groups |-> Unset, shape |-> Unset,
     sweeps |-> Unset, post_delays |-> Unset, params_set |-> Unset,
     post_actions |-> Unset]

\* exp = None, one Experiment, or a sequence of n Experiments
NoExperiment == [seq |-> FALSE, n |-> 0]
OneExperiment == [seq |-> FALSE, n |-> 1]
ExperimentSequence(n) == [seq |-> TRUE, n |-> n]
ExperimentInputs ==
    {NoExperiment, OneExperiment} \cup {ExperimentSequence(n) : n \in 0..MaxExp}

NoPrevious == [init |-> FALSE, len |-> 0, val |-> <<>>]
NoResult == [kind |-> "none", datasets |-> <<>>]

RunIdle ==
    /\ meas_list = <<>>
    /\ datasavers = FALSE
    /\ stack = 0
    /\ writers = <<>>
    /\ additional_setpoints_data = <<>>
    /\ previous_setpoints = NoPrevious
    /\ point = 0
    /\ interrupted = "None"
    /\ exc = "None"
    /\ teardown = <<>>
    /\ result = NoResult

runVars == <<meas_list, datasavers, stack, writers, additional_setpoints_data,
             previous_setpoints, point, interrupted, exc, teardown, result>>

NoMeasurements ==
    [measured_all |-> <<>>, grouped_parameters |-> <<>>, measured_parameters |-> <<>>]

\* the variables the planner does not touch
MeasIdle ==
    /\ params_meas = <<>>
    /\ measurements = NoMeasurements
    /\ params_meas_caller = <<>>
    /\ meas_value_pair = <<>>

PlanIdle ==
    /\ sweep_instances = <<>>
    /\ additional_setpoints = <<>>
    /\ sweeper = NoSweeper

NoRequest == [parameter |-> 0, value |-> 0]

SetIdle ==
    /\ cache = <<>>
    /\ events = <<>>
    /\ request = NoRequest

measVars == <<params_meas, measurements, params_meas_caller, meas_value_pair>>
setVars == <<cache, events, request>>
planVars == <<sweep_instances, additional_setpoints, sweeper>>

(***************************************************************************)
(* The planner on its own: _Sweeper(sweeps, additional_setpoints).         *)
(***************************************************************************)
InitPlan ==
    /\ experiments = NoExperiment
    /\ pc = "Sweeper_init"
    /\ sweep_instances \in PlanInputs
    /\ additional_setpoints \in AdditionalInputs
    /\ sweeper = NoSweeper
    /\ MeasIdle
    /\ SetIdle
    /\ RunIdle

\* _Sweeper.__init__, line 79
Sweeper_nested_setpoints ==
    /\ pc = "Sweeper_init"
    /\ LET r == _make_nested_setpoints(sweep_instances)
       IN  /\ sweeper' = [sweeper EXCEPT !.nested_setpoints = r]
           /\ pc' = IF r.ok THEN "Sweeper_groups" ELSE "raised"
    /\ UNCHANGED <<experiments, sweep_instances, additional_setpoints, measVars, setVars, runVars>>

\* _Sweeper.__init__, line 80
Sweeper_groups ==
    /\ pc = "Sweeper_groups"
    /\ sweeper' = [sweeper EXCEPT !.parameter_groups =
                     Ok(_make_parameter_groups(sweep_instances, additional_setpoints))]
    /\ pc' = "Sweeper_shape"
    /\ UNCHANGED <<experiments, sweep_instances, additional_setpoints, measVars, setVars, runVars>>

\* _Sweeper.__init__, lines 83-89
Sweeper_shape ==
    /\ pc = "Sweeper_shape"
    /\ sweeper' = [sweeper EXCEPT
                     !.sweeps = Ok(FlatSweeps(sweep_instances)),
                     !.shape = Ok(_make_shape(sweep_instances, additional_setpoints))]
    /\ pc' = "Sweeper_loopdata"
    /\ UNCHANGED <<experiments, sweep_instances, additional_setpoints, measVars, setVars, runVars>>

\* _Sweeper.__init__, lines 91-93
Sweeper_loopdata ==
    /\ pc = "Sweeper_loopdata"
    /\ LET r == LoopData(sweep_instances)
       IN  IF r.ok
           THEN /\ sweeper' = [sweeper EXCEPT
                                 !.post_delays = Ok(r.val.post_delays),
                                 !.params_set = Ok(r.val.params_set),
                                 !.post_actions = Ok(r.val.post_actions)]
                /\ pc' = "constructed"
           ELSE /\ sweeper' = [sweeper EXCEPT !.post_delays = r]
                /\ pc' = "raised"
    /\ UNCHANGED <<experiments, sweep_instances, additional_setpoints, measVars, setVars, runVars>>

NextPlan ==
    Sweeper_nested_setpoints \/ Sweeper_groups \/ Sweeper_shape \/ Sweeper_loopdata

SpecPlan == InitPlan /\ [][NextPlan]_vars

(***************************************************************************)
(* The measured side on its own: _Measurements(...), the construction of   *)
(* the Parameter Value Caller, one call of it and the routing of its       *)
(* result to the groups.                                                   *)
(***************************************************************************)
InitGroup ==
    /\ experiments = NoExperiment
    /\ pc = "Measurements_init"
    /\ params_meas \in MeasInputs
    /\ measurements = NoMeasurements
    /\ params_meas_caller = <<>>
    /\ meas_value_pair = <<>>
    /\ PlanIdle
    /\ SetIdle
    /\ RunIdle

\* _Measurements.__init__
Measurements_init ==
    /\ pc = "Measurements_init"
    /\ measurements' = _extract_paramters_by_type_and_group(params_meas)
    /\ pc' = "make_caller"
    /\ UNCHANGED <<experiments, params_meas, params_meas_caller, meas_value_pair, planVars, setVars, runVars>>

\* dond, lines 346-350
MakeCaller ==
    /\ pc = "make_caller"
    /\ params_meas_caller' = measurements.measured_all
    /\ pc' = "call"
    /\ UNCHANGED <<experiments, params_meas, measurements, meas_value_pair, planVars, setVars, runVars>>

\* dond, lines 386-391, at the first grid point
CallAndRoute ==
    /\ pc = "call"
    /\ LET pairs == call_params_meas(params_meas_caller, 1)
       IN  /\ meas_value_pair' = pairs
           /\ measurements' = [measurements EXCEPT !.grouped_parameters =
                                  RouteMeasured(@, pairs)]
    /\ pc' = "routed"
    /\ UNCHANGED <<experiments, params_meas, params_meas_caller, planVars, setVars, runVars>>

NextGroup == Measurements_init \/ MakeCaller \/ CallAndRoute

SpecGroup == InitGroup /\ [][NextGroup]_vars

(***************************************************************************)
(* _conditional_parameter_set on its own: calls with any value on two      *)
(* parameters whose caches start with any value or none.                   *)
(***************************************************************************)
SetParams == {1, 2}

InitSet ==
    /\ experiments = NoExperiment
    /\ pc = "cond_idle"
    /\ cache \in [SetParams -> Values \cup {NoneVal}]
    /\ events = <<>>
    /\ request = NoRequest
    /\ PlanIdle
    /\ MeasIdle
    /\ RunIdle

\* a caller binds the arguments
CallConditionalSet ==
    /\ pc = "cond_idle"
    /\ Len(events) < MaxSetCalls
    /\ \E parameter \in SetParams, value \in Values :
          request' = [parameter |-> parameter, value |-> value]
    /\ pc' = "cond_call"
    /\ UNCHANGED <<experiments, cache, events, planVars, measVars, runVars>>

\* the body of _conditional_parameter_set; the hardware may fail
ConditionalSet ==
    /\ pc = "cond_call"
    /\ \E fails \in BOOLEAN :
          LET st == _conditional_parameter_set([cache |-> cache, events |-> events],
                                               request.parameter, request.value, fails)
          IN  /\ cache' = st.cache
              /\ events' = st.events
    /\ pc' = "cond_idle"
    /\ UNCHANGED <<experiments, request, planVars, measVars, runVars>>

NextSet == CallConditionalSet \/ ConditionalSet

SpecSet == InitSet /\ [][NextSet]_vars

(***************************************************************************)
(* dond.  A break_condition is always given; its result is any boolean.    *)
(***************************************************************************)
DondInputs(exps) ==
    /\ pc = "dond"
    /\ sweep_instances \in RunPlans
    /\ additional_setpoints \in RunAdditionalInputs
    /\ params_meas \in RunMeasInputs
    /\ experiments \in exps
    /\ sweeper = NoSweeper
    /\ measurements = NoMeasurements
    /\ params_meas_caller = <<>>
    /\ meas_value_pair = <<>>
    /\ cache = [p \in 1..Len(sweep_instances) |-> NoneVal]
    /\ events = <<>>
    /\ request = NoRequest
    /\ RunIdle

Init == DondInputs({NoExperiment})

\* dond, lines 295-350: the plan, the groups, the measurements, the caller
Setup ==
    /\ pc = "dond"
    /\ LET sw == Sweeper(sweep_instances, additional_setpoints)
           ms == _extract_paramters_by_type_and_group(params_meas)
           sh == detect_shapes_with_fallback(
                     detect_shape_of_measurement(ms.measured_parameters, sw.val.shape.val))
           ml == _create_measurements_grouped(sw.val.parameter_groups.val, experiments,
                                              ms.grouped_parameters, sh.val)
       IN  IF ~sw.ok
           THEN /\ exc' = sw.val
                /\ pc' = "raised"
                /\ UNCHANGED <<sweeper, measurements, meas_list, params_meas_caller>>
           ELSE IF ~sh.ok
           THEN /\ exc' = sh.val
                /\ pc' = "raised"
                /\ sweeper' = sw.val
                /\ measurements' = ms
                /\ UNCHANGED <<meas_list, params_meas_caller>>
           ELSE IF ~ml.ok
           THEN /\ exc' = ml.val
                /\ pc' = "raised"
                /\ sweeper' = sw.val
                /\ measurements' = ms
                /\ UNCHANGED <<meas_list, params_meas_caller>>
           ELSE /\ sweeper' = sw.val
                /\ measurements' = ms
                /\ meas_list' = ml.val
                /\ params_meas_caller' = ms.measured_all
                /\ pc' = "enter"
                /\ exc' = "None"
    /\ UNCHANGED <<experiments, sweep_instances, additional_setpoints, params_meas, meas_value_pair,
                   setVars, datasavers, stack, writers, additional_setpoints_data,
                   previous_setpoints, point, interrupted, teardown, result>>

\* dond, lines 353-356: the guard, the ExitStack and the caller are entered,
\* every writer is opened, the additional setpoints are read
EnterWith ==
    /\ pc = "enter"
    /\ stack' = Len(meas_list)
    /\ writers' = [w \in 1..Len(meas_list) |-> [rows |-> <<>>, completed |-> 0, plotted |-> 0]]
    /\ datasavers' = TRUE
    /\ additional_setpoints_data' = process_params_meas(additional_setpoints, 0)
    /\ previous_setpoints' = [init |-> FALSE, len |-> Len(sweep_instances), val |-> <<>>]
    /\ point' = 1
    /\ pc' = "running"
    /\ UNCHANGED <<experiments, planVars, measVars, setVars, meas_list, interrupted, exc, teardown, result>>

\* dond, lines 353-354: entering the caller, or opening the writer after the
\* first `opened` ones, raises
EnterWithRaises ==
    /\ pc = "enter"
    /\ \E opened \in 0..Len(meas_list) - 1 :
          /\ stack' = opened
          /\ writers' = [w \in 1..opened |-> [rows |-> <<>>, completed |-> 0, plotted |-> 0]]
    /\ exc' = "Error"
    /\ pc' = "exiting"
    /\ UNCHANGED <<experiments, planVars, measVars, setVars, meas_list, datasavers,
                   additional_setpoints_data, previous_setpoints, point, interrupted,
                   teardown, result>>

Rows == sweeper.nested_setpoints.val

\* the error a failing step raises: a measured read raises the ValueError of
\* the instrument driver (unsupported result format)
ErrorOf(step) == IF step = "read" THEN "ValueError" ELSE "Error"

\* what may go wrong in one iteration: a hardware set, a post action, the
\* measured read or an add_result raises an error or is hit by a keyboard
\* interrupt, or the break condition returns true
Faults(active) ==
    LET steps ==
            ({"set"} \X {d \in 1..Len(Rows[point]) :
                            Rows[point][d] # cache[sweeper.params_set.val[d]]})
                \cup ({"act"} \X {d \in 1..Len(Rows[point]) : active.actions[d] # <<>>})
                \cup {<<"read", 0>>}
                \cup ({"add"} \X (0..Len(writers) - 1))
    IN  {NoFault, Fault("poll", 0, raise_on_break_condition(TRUE))}
            \cup {Fault(f[1], f[2], ErrorOf(f[1])) : f \in steps}
            \cup {Fault(f[1], f[2], "KeyboardInterrupt") : f \in steps}

\* dond, lines 357-404: one pass of the loop body
Iterate ==
    /\ pc = "running"
    /\ point <= Len(Rows)
    /\ \E guess \in [1..Len(Rows[point]) -> BOOLEAN] :
          /\ previous_setpoints.init => \A d \in DOMAIN guess : guess[d]
          /\ LET setpoints == Rows[point]
                 active == _select_active_actions_delays(
                               sweeper.post_actions.val, sweeper.post_delays.val,
                               setpoints, previous_setpoints, guess)
                 groups == sweeper.parameter_groups.val
                 it == [n |-> Min(Len(sweeper.params_set.val), Len(setpoints)),
                        params_set |-> sweeper.params_set.val,
                        setpoints |-> setpoints,
                        actions |-> active.actions,
                        delays |-> active.delays,
                        groups |-> groups]
             IN  \E fault \in Faults(active) :
                    LET s1 == SetLoop(1, [cache |-> cache, events |-> <<>>,
                                          psd |-> [g \in 1..Len(groups) |-> <<>>],
                                          raised |-> FALSE], it, fault)
                        read == ~s1.raised
                        pairs == call_params_meas(params_meas_caller, point)
                        routed == RouteMeasured(measurements.grouped_parameters, pairs)
                        gotPairs == read /\ ~FaultIs(fault, "read", 0)
                        rows == [w \in 1..Len(writers) |->
                                   [setpoints |-> ParamSetOf(groups, s1.psd, w - 1),
                                    measured |-> DictGet(routed, w - 1).measured_params,
                                    additional |-> additional_setpoints_of_row(
                                        additional_setpoints_data,
                                        additional_setpoints, point)]]
                        s2 == IF gotPairs
                              THEN AddLoop(1, [events |-> Append(s1.events, Event("read", 0, 0)),
                                               writers |-> writers, raised |-> FALSE],
                                           rows, fault)
                              ELSE [events |-> IF read
                                               THEN Append(s1.events, Event("read", 0, 0))
                                               ELSE s1.events,
                                    writers |-> writers, raised |-> TRUE]
                        polled == ~s2.raised
                    IN  /\ previous_setpoints' =
                               [init |-> TRUE, len |-> Len(setpoints), val |-> setpoints]
                        /\ cache' = s1.cache
                        /\ meas_value_pair' = IF gotPairs THEN pairs ELSE meas_value_pair
                        /\ measurements' =
                               IF gotPairs
                               THEN [measurements EXCEPT !.grouped_parameters = routed]
                               ELSE measurements
                        /\ writers' = s2.writers
                        /\ events' =
                               IF polled
                               THEN Append(s2.events,
                                           Event("poll", 0, IF fault.step = "poll" THEN 1 ELSE 0))
                               ELSE s2.events
                        /\ exc' = fault.exc
                        /\ IF fault.exc = "None"
                           THEN pc' = "running" /\ point' = point + 1
                           ELSE pc' = "exiting" /\ point' = point
    /\ UNCHANGED <<experiments, planVars, params_meas, params_meas_caller, request, meas_list,
                   datasavers, stack, additional_setpoints_data, interrupted,
                   teardown, result>>

\* dond, line 353: the with statement is left, after the last row or with the
\* exception in flight: the writers are finalized, the guard sees the exception
ExitWith ==
    /\ \/ pc = "exiting"
       \/ pc = "running" /\ point > Len(Rows)
    /\ LET closed == ExitStackClose(stack)
       IN  /\ teardown' = teardown \o closed
           /\ writers' =
                 [w \in 1..Len(writers) |->
                    [writers[w] EXCEPT !.completed =
                        @ + Cardinality({i \in 1..Len(closed) : closed[i].who = w})]]
    /\ interrupted' = catch_interrupts_exit(exc).interrupted
    /\ exc' = catch_interrupts_exit(exc).exc
    /\ pc' = "finally"
    /\ UNCHANGED <<experiments, planVars, measVars, setVars, meas_list, datasavers, stack,
                   additional_setpoints_data, previous_setpoints, point, result>>

\* dond, lines 405-418: every datasaver's dataset is plotted, then the
\* exception in flight propagates or the datasets are returned
Finally ==
    /\ pc = "finally"
    /\ IF ~datasavers
       THEN /\ exc' = "UnboundLocalError"
            /\ pc' = "raised"
            /\ UNCHANGED <<teardown, writers, result>>
       ELSE /\ LET plots == PlotDatasavers(Len(writers), interrupted)
               IN  /\ teardown' = teardown \o plots
                   /\ writers' =
                         [w \in 1..Len(writers) |->
                            [writers[w] EXCEPT !.plotted =
                                @ + Cardinality({i \in 1..Len(plots) : plots[i].who = w})]]
            /\ IF exc # "None"
               THEN pc' = "raised" /\ UNCHANGED <<exc, result>>
               ELSE /\ pc' = "returned"
                    /\ LET plots == PlotDatasavers(Len(writers), interrupted)
                           datasets == [i \in 1..Len(plots) |-> plots[i].who]
                       IN  result' = dond_return(Len(measurements.grouped_parameters),
                                                 datasets)
                    /\ UNCHANGED exc
    /\ UNCHANGED <<experiments, planVars, measVars, setVars, meas_list, datasavers, stack,
                   additional_setpoints_data, previous_setpoints, point, interrupted>>

Next == Setup \/ EnterWith \/ EnterWithRaises \/ Iterate \/ ExitWith \/ Finally

Spec == Init /\ [][Next]_vars

(***************************************************************************)
(* The setup of dond alone, for every form of the exp argument.            *)
(***************************************************************************)
InitSetup == DondInputs(ExperimentInputs)

NextSetup == Setup

SpecSetup == InitSetup /\ [][NextSetup]_vars

(***************************************************************************)
(* dond while another actor (another thread, a post action, the            *)
(* instrument's front panel) changes the cached value of a swept parameter *)
(* between two grid points.                                                *)
(***************************************************************************)
InitDrift ==
    /\ DondInputs({NoExperiment})
    /\ additional_setpoints = <<>>
    /\ Len(params_meas) = 1
    /\ Len(params_meas[1].es) = 1

\* a parameter's cache comes to hold another value while the loop runs
OtherActorSets ==
    /\ pc = "running"
    /\ 1 < point
    /\ point <= Len(Rows)
    /\ \E p \in DOMAIN cache : \E v \in Values :
          /\ v # cache[p]
          /\ cache' = [cache EXCEPT ![p] = v]
    /\ UNCHANGED <<pc, experiments, planVars, measVars, events, request, runVars>>

NextDrift == Next \/ OtherActorSets

SpecDrift == InitDrift /\ [][NextDrift]_vars

(***************************************************************************)
(* _create_measurements_grouped alone, called with the setpoint groups of  *)
(* the planner (_make_parameter_groups) for plans with and without         *)
(* MultiSweeps, every sweep having one point, and the measurement groups   *)
(* of the grouper.                                                         *)
(***************************************************************************)
CreatePlans ==
    {BuildSweeps(s, 1) :
        s \in {t \in PlanShapes :
                 \A i \in 1..Len(t) : \A j \in 1..Len(t[i].lens) : t[i].lens[j] = 1}}

InitCreate ==
    /\ pc = "create"
    /\ sweep_instances \in CreatePlans
    /\ additional_setpoints \in RunAdditionalInputs
    /\ params_meas \in RunMeasInputs
    /\ experiments = NoExperiment
    /\ sweeper = [NoSweeper EXCEPT !.parameter_groups =
                     Ok(_make_parameter_groups(sweep_instances, additional_setpoints))]
    /\ measurements = _extract_paramters_by_type_and_group(params_meas)
    /\ params_meas_caller = <<>>
    /\ meas_value_pair = <<>>
    /\ SetIdle
    /\ RunIdle

\* the call of _create_measurements_grouped, dond lines 329-338
CreateMeasurementsGrouped ==
    /\ pc = "create"
    /\ LET ml == _create_measurements_grouped(sweeper.parameter_groups.val, experiments,
                                              measurements.grouped_parameters, NoShapes)
       IN  IF ml.ok
           THEN meas_list' = ml.val /\ pc' = "created" /\ UNCHANGED exc
           ELSE exc' = ml.val /\ pc' = "create_raised" /\ UNCHANGED meas_list
    /\ UNCHANGED <<experiments, planVars, measVars, setVars, datasavers, stack, writers,
                   additional_setpoints_data, previous_setpoints, point, interrupted,
                   teardown, result>>

NextCreate == CreateMeasurementsGrouped

SpecCreate == InitCreate /\ [][NextCreate]_vars

(***************************************************************************)
(* Claims about the planner.                                               *)
(***************************************************************************)
\* the tuples one axis contributes to a row, point by point
AxisTuples(sweep) ==
    IF isAbstractSweep(sweep)
    THEN [i \in 1..Len(sweep.setpoints) |-> <<sweep.setpoints[i]>>]
    ELSE [i \in 1..Len(sweep.sweeps[1].setpoints) |->
            [j \in 1..Len(sweep.sweeps) |-> sweep.sweeps[j].setpoints[i]]]

\* the cartesian product of the axes, first axis slowest, last axis fastest
RECURSIVE RowMajor(_)
RowMajor(axes) ==
    IF axes = <<>> THEN << <<>> >>
    ELSE LET rest == RowMajor(Tail(axes))
             head == Head(axes)
         IN  Concat([i \in 1..Len(head) |->
                       [r \in 1..Len(rest) |-> head[i] \o rest[r]]])

\* every way of picking one point on every axis
Picks(sweeps) ==
    {c \in [1..Len(sweeps) -> 1..MaxPoints + 1] :
        \A k \in 1..Len(sweeps) : c[k] <= Len(AxisTuples(sweeps[k]))}

RowOfPick(sweeps, c) ==
    Concat([k \in 1..Len(sweeps) |-> AxisTuples(sweeps[k])[c[k]]])

PlannedRows == sweeper.nested_setpoints.val

\* C1: iterating the flattened points visits the cartesian product of the
\* axes in row-major order (last-listed axis fastest, first-listed slowest),
\* and every combination of one point per axis is exactly one row.
C1_RowMajorOrder ==
    sweeper.nested_setpoints.ok =>
        /\ PlannedRows = RowMajor([k \in 1..Len(sweep_instances) |->
                                     AxisTuples(sweep_instances[k])])
        /\ \A c \in Picks(sweep_instances) :
              Cardinality({f \in 1..Len(PlannedRows) :
                             PlannedRows[f] = RowOfPick(sweep_instances, c)}) = 1

\* the example of the claim: [A (2 points), B (3 points)]
C1_Witness ==
    /\ sweeper.nested_setpoints.ok
    /\ sweep_instances = <<AbstractSweep(1, <<10, 11>>), AbstractSweep(2, <<20, 21, 22>>)>>
    /\ PlannedRows = << <<10, 20>>, <<10, 21>>, <<10, 22>>,
                        <<11, 20>>, <<11, 21>>, <<11, 22>> >>

\* C2: the number of flattened points is the product of the entries of the
\* grid shape; no descriptors give exactly one (empty) row, and every
\* additional setpoint is a trailing axis of size 1.
C2_RowsIsProductOfShape ==
    sweeper.shape.ok =>
        LET shape == sweeper.shape.val
            n == Len(sweep_instances)
        IN  /\ Len(PlannedRows) = Product(shape)
            /\ Len(shape) = n + Len(additional_setpoints)
            /\ \A j \in n + 1..Len(shape) : shape[j] = 1
            /\ n = 0 => PlannedRows = << <<>> >>

C2_Witness ==
    /\ sweeper.shape.ok
    /\ sweep_instances = <<>>
    /\ Len(additional_setpoints) = 1
    /\ sweeper.shape.val = <<1>>
    /\ Len(PlannedRows) = 1

(***************************************************************************)
(* Claims about the measurement grouper.                                   *)
(***************************************************************************)
BareEntities(items) ==
    Concat([i \in 1..Len(items) |-> IF items[i].bundle THEN <<>> ELSE items[i].es])

Bundles(items) ==
    LET isBundle(it) == it.bundle
        bs == SelectSeq(items, isBundle)
    IN  [i \in 1..Len(bs) |-> bs[i].es]

Grouped == measurements.grouped_parameters

\* C6: for an input mixing bare entities and bundles, the bare entities form
\* group_0 and the i-th bundle (i from 1) forms group_i; no group is shared or
\* overwritten.
C6_MixedInputGroups ==
    (/\ pc # "Measurements_init"
     /\ BareEntities(params_meas) # <<>>
     /\ Bundles(params_meas) # <<>>)
        => /\ Len(Grouped) = 1 + Len(Bundles(params_meas))
           /\ DictHas(Grouped, 0)
           /\ DictGet(Grouped, 0).params = BareEntities(params_meas)
           /\ \A i \in 1..Len(Bundles(params_meas)) :
                 /\ DictHas(Grouped, i)
                 /\ DictGet(Grouped, i).params = Bundles(params_meas)[i]

\* the flat left-to-right traversal of the input, bundles expanded in place
FlatTraversal(items) == Concat([i \in 1..Len(items) |-> items[i].es])

\* C7: measured_all is the flat left-to-right traversal of the input, bundles
\* expanded in place; the caller is built from it and returns its pairs in
\* that order.
C7_MeasuredAllIsFlatTraversal ==
    /\ pc # "Measurements_init" =>
          measurements.measured_all = FlatTraversal(params_meas)
    /\ pc \in {"call", "routed"} =>
          params_meas_caller = FlatTraversal(params_meas)
    /\ pc = "routed" =>
          [i \in 1..Len(meas_value_pair) |-> meas_value_pair[i][1]]
              = FlatTraversal(params_meas)

\* a bundle listed before a bare entity
C7_Witness ==
    /\ pc = "routed"
    /\ params_meas = <<Bundle(<<21, 22>>), Bare(23)>>
    /\ measurements.measured_all = <<21, 22, 23>>
    /\ meas_value_pair = << <<21, 121>>, <<22, 122>>, <<23, 123>> >>

(***************************************************************************)
(* Claims about _conditional_parameter_set.                                *)
(***************************************************************************)
\* C5: a call invokes the parameter's hardware set exactly once when the
\* value differs from the cached value, and not at all, leaving the parameter
\* untouched, when the value equals the cached value.
C5_SetOnlyWhenDifferent ==
    [][(pc = "cond_call" /\ pc' = "cond_idle") =>
          IF request.value # cache[request.parameter]
          THEN events' = Append(events, Event("set", request.parameter, request.value))
          ELSE events' = events /\ cache' = cache]_vars

\* a call with the cached value has returned without a hardware set, after a
\* call that did set another parameter
C5_Witness ==
    /\ pc = "cond_idle"
    /\ Len(events) = 1
    /\ request.parameter # events[1].who
    /\ cache[request.parameter] = request.value

(***************************************************************************)
(* Claims about the execution loop of dond.                                *)
(***************************************************************************)
\* the values logged for the calls `op` made on `who`, in order
ValuesOf(log, op, who) ==
    LET Is(e) == e.op = op /\ e.who = who
        es == SelectSeq(log, Is)
    IN  [i \in 1..Len(es) |-> es[i].val]

\* C3: at every grid point after the first, the post actions of a dimension
\* run and its post delay is slept if and only if the dimension's value differs
\* from the value of the same dimension in the immediately preceding row (an
\* unchanged dimension runs no action and sleeps 0).
C3_ChangeDetection ==
    [][(pc = "running" /\ 1 < point /\ point <= Len(Rows)) =>
          \A d \in 1..Len(Rows[point]) :
             LET changed == Rows[point][d] # Rows[point - 1][d]
                 acts == ValuesOf(events', "act", d)
                 sleeps == ValuesOf(events', "sleep", d)
             IN  /\ pc' = "running" => sleeps # <<>>
                 /\ ~changed => acts = <<>> /\ sleeps \in {<<>>, <<0>>}
                 /\ (changed /\ sleeps # <<>>) =>
                       /\ acts = sweep_instances[d].post_actions
                       /\ sleeps = <<sweep_instances[d].delay>>]_vars

\* going from (0, 0) to (0, 1) only the second axis has fired; and, on the
\* sequence [(1,5),(1,6),(2,6)], only the second axis is selected going from
\* point 1 to 2 and only the first going from point 2 to 3
C3_Witness ==
    /\ pc = "running"
    /\ point = 3
    /\ Len(sweep_instances) = 2
    /\ previous_setpoints.val = <<0, 1>>
    /\ ValuesOf(events, "act", 1) = <<>>
    /\ ValuesOf(events, "sleep", 1) = <<0>>
    /\ ValuesOf(events, "act", 2) = <<2>>
    /\ ValuesOf(events, "sleep", 2) = <<2>>
    /\ _select_active_actions_delays(<< <<1>>, <<2>> >>, <<1, 2>>, <<1, 6>>,
                                     [init |-> TRUE, len |-> 2, val |-> <<1, 5>>],
                                     <<TRUE, TRUE>>)
          = [actions |-> << <<>>, <<2>> >>, delays |-> <<0, 2>>]
    /\ _select_active_actions_delays(<< <<1>>, <<2>> >>, <<1, 2>>, <<2, 6>>,
                                     [init |-> TRUE, len |-> 2, val |-> <<1, 6>>],
                                     <<TRUE, TRUE>>)
          = [actions |-> << <<1>>, <<>> >>, delays |-> <<1, 0>>]

\* C4: at the first grid point every setpoint dimension is considered changed:
\* its post actions are run and its post delay is applied, whatever the first
\* row holds.
C4_FirstPointAllChanged ==
    (pc = "running" /\ point = 2) =>
        \A d \in 1..Len(sweep_instances) :
           /\ ValuesOf(events, "act", d) = sweep_instances[d].post_actions
           /\ ValuesOf(events, "sleep", d) = <<sweep_instances[d].delay>>

\* the break condition has returned true: it is the last call logged
BreakMet == events # <<>> /\ events[Len(events)] = Event("poll", 0, 1)

\* the row writer w receives at grid point t
RowAt(w, t) ==
    [setpoints |->
        IF DictHas(sweeper.parameter_groups.val, w - 1)
        THEN LET ps == DictGet(sweeper.parameter_groups.val, w - 1).params
                 Swept(q) == \E d \in 1..Len(Rows[t]) : sweeper.params_set.val[d] = q
                 mine == SelectSeq(ps, Swept)
             IN  [i \in 1..Len(mine) |->
                    <<mine[i],
                      Rows[t][CHOOSE d \in 1..Len(Rows[t]) :
                                 sweeper.params_set.val[d] = mine[i]]>>]
        ELSE <<>>,
     measured |->
        LET ps == measurements.grouped_parameters[w].params
            all == measurements.measured_all
            Mine(e) == InSeq(e, ps)
            es == SelectSeq(all, Mine)
        IN  [i \in 1..Len(es) |-> <<es[i], MeasuredValue(es[i], t)>>],
     additional |-> additional_setpoints_data]

\* C8: once the break condition has returned true at grid point k, the row of
\* point k is in every writer's table, no parameter set, post action, measured
\* read or add_result follows, and teardown runs with interrupted set.
C8_BreakHaltsAfterPoint ==
    /\ [](BreakMet =>
            /\ pc \in {"exiting", "finally", "returned"}
            /\ \A w \in 1..Len(writers) :
                  /\ Len(writers[w].rows) = point
                  /\ writers[w].rows[point] = RowAt(w, point)
            /\ pc \in {"finally", "returned"} => interrupted = "BreakConditionInterrupt"
            /\ pc = "returned" =>
                  \A w \in 1..Len(writers) : ValuesOf(teardown, "plot", w) = <<1>>)
    /\ [][BreakMet =>
            /\ events' = events
            /\ cache' = cache
            /\ point' = point
            /\ meas_value_pair' = meas_value_pair
            /\ \A w \in 1..Len(writers) : writers'[w].rows = writers[w].rows]_vars

\* the break condition was met at the second of four grid points
C8_Witness ==
    /\ BreakMet
    /\ pc = "returned"
    /\ Len(Rows) = 4
    /\ point = 2
    /\ Len(writers) = 2
    /\ \A w \in 1..2 : Len(writers[w].rows) = 2
    /\ interrupted = "BreakConditionInterrupt"

\* C9: when the break condition returns true, the BreakConditionInterrupt is
\* not raised to the caller of dond: dond never ends by raising, and after
\* teardown it returns its normal result (the triple for one group, the tuples
\* otherwise) with the partial tables.
C9_BreakNotRaisedToCaller ==
    BreakMet =>
        /\ pc # "raised"
        /\ pc \in {"finally", "returned"} => exc = "None"
        /\ pc = "returned" =>
              /\ result.kind = IF Len(measurements.grouped_parameters) = 1
                               THEN "triple" ELSE "tuples"
              /\ result.datasets = [w \in 1..Len(writers) |-> w]
              /\ \A w \in 1..Len(writers) : Len(writers[w].rows) = point

\* a scan of two grid points, broken at the first, has returned the triple
C9_Witness ==
    /\ BreakMet
    /\ pc = "returned"
    /\ result.kind = "triple"
    /\ Len(Rows) = 2
    /\ writers[1].rows = <<RowAt(1, 1)>>

\* C10: in every scan in which all writers were opened, however the loop ends,
\* each opened writer is finalized exactly once and the plotting collaborator
\* is invoked exactly once for its table; neither happens twice.
C10_TeardownExactlyOnce ==
    /\ \A w \in 1..Len(writers) :
          /\ writers[w].completed <= 1
          /\ writers[w].plotted <= 1
    /\ (datasavers /\ pc \in {"returned", "raised"}) =>
          /\ Len(writers) = Len(meas_list)
          /\ \A w \in 1..Len(writers) :
                /\ writers[w].completed = 1
                /\ writers[w].plotted = 1
                /\ ValuesOf(teardown, "finalize", w) = <<0>>
                /\ Len(ValuesOf(teardown, "plot", w)) = 1

\* an add_result on the second writer raised at the second grid point
C10_Witness ==
    /\ pc = "raised"
    /\ datasavers
    /\ exc = "Error"
    /\ point = 2
    /\ Len(writers) = 2
    /\ Len(writers[1].rows) = 2
    /\ Len(writers[2].rows) = 1
    /\ \A w \in 1..2 : writers[w].completed = 1 /\ writers[w].plotted = 1

(***************************************************************************)
(* Claims about the teardown, the setup and the rows of dond.              *)
(***************************************************************************)
\* where in the log the calls `op` on `who` are
PositionsOf(log, op, who) ==
    {i \in 1..Len(log) : log[i].op = op /\ log[i].who = who}

\* every call `op` on a precedes every call `op2` on b
Precedes(log, op, a, op2, b) ==
    \A i \in PositionsOf(log, op, a) : \A j \in PositionsOf(log, op2, b) : i < j

\* C11 as stated: for any two measurement groups i < j, writer i's table is
\* finalized before writer j's, and writer i's plotting step runs before
\* writer j's.
C11_TeardownInOpeningOrder ==
    \A i \in 1..Len(writers) : \A j \in i + 1..Len(writers) :
        /\ Precedes(teardown, "finalize", i, "finalize", j)
        /\ Precedes(teardown, "plot", i, "plot", j)

\* C11 amended: the writers are finalized in the reverse of the order they were
\* opened (writer j before writer i for i < j), every finalization precedes
\* every plotting step, and the plotting steps run in group order.
C11_TeardownOrder ==
    /\ \A i \in 1..Len(writers) : \A j \in i + 1..Len(writers) :
          /\ Precedes(teardown, "finalize", j, "finalize", i)
          /\ Precedes(teardown, "plot", i, "plot", j)
    /\ \A i \in 1..Len(writers) : \A j \in 1..Len(writers) :
          Precedes(teardown, "finalize", i, "plot", j)
    /\ pc \in {"finally", "returned", "raised"} =>
          \A w \in 1..stack : PositionsOf(teardown, "finalize", w) # {}

\* two writers were finalized and plotted
C11_Witness ==
    /\ pc = "returned"
    /\ teardown = <<Event("finalize", 2, 0), Event("finalize", 1, 0),
                    Event("plot", 1, 0), Event("plot", 2, 0)>>

\* C12: a sequence of experiments whose length differs from the number of
\* measurement groups makes dond raise ValueError during setup, with no
\* measurement constructed, no writer opened, no parameter set and no measured
\* read made; None or a single experiment is given to every group.
C12_ExperimentsMismatch ==
    pc # "dond" =>
        LET N == Len(measurements.grouped_parameters)
        IN  /\ (experiments.seq /\ experiments.n # N) =>
                  /\ pc = "raised"
                  /\ exc = "ValueError"
                  /\ meas_list = <<>>
                  /\ writers = <<>>
                  /\ stack = 0
                  /\ ~datasavers
                  /\ events = <<>>
                  /\ meas_value_pair = <<>>
                  /\ \A q \in DOMAIN cache : cache[q] = NoneVal
            /\ ~experiments.seq =>
                  /\ pc = "enter"
                  /\ Len(meas_list) = N
                  /\ \A i \in 1..N : meas_list[i].exp = experiments.n

\* one experiment in a sequence, two measurement groups
C12_Witness ==
    /\ pc = "raised"
    /\ exc = "ValueError"
    /\ experiments = ExperimentSequence(1)
    /\ Len(measurements.grouped_parameters) = 2

\* C13: with K setpoint groups from the planner and N measurement groups, a
\* single setpoint group (K = 1) is registered for all N measurement groups; if
\* K differs from both 1 and N, ValueError is raised with no writer opened; if
\* K = N every measurement group gets the setpoint group of the same name.
C13_SetpointGroupCount ==
    pc \in {"created", "create_raised"} =>
        LET groups == sweeper.parameter_groups.val
            K == Len(groups)
            N == Len(measurements.grouped_parameters)
        IN  /\ K = 1 =>
                  /\ pc = "created"
                  /\ Len(meas_list) = N
                  /\ \A i \in 1..N : meas_list[i].setpoints = groups[1].params
            /\ (K # 1 /\ K # N) =>
                  /\ pc = "create_raised"
                  /\ exc = "ValueError"
                  /\ meas_list = <<>>
                  /\ writers = <<>>
                  /\ stack = 0
            /\ (K # 1 /\ K = N) =>
                  /\ pc = "created"
                  /\ Len(meas_list) = N
                  /\ \A i \in 1..N :
                        /\ DictHas(groups, measurements.grouped_parameters[i].key)
                        /\ meas_list[i].setpoints =
                              DictGet(groups, measurements.grouped_parameters[i].key).params

\* one global setpoint group was given to two measurement groups
C13_Witness ==
    /\ pc = "created"
    /\ Len(sweeper.parameter_groups.val) = 1
    /\ Len(meas_list) = 2
    /\ sweep_instances # <<>>
    /\ meas_list[2].setpoints = meas_list[1].setpoints
    /\ meas_list[2].setpoints # <<>>

\* C14: at every grid point the row submitted to the writer of every
\* measurement group holds one (setpoint parameter, value) pair for every
\* global sweep parameter, with the value of its column in the current row.
C14_EveryWriterGetsSetpoints ==
    \A w \in 1..Len(writers) : \A t \in 1..Len(writers[w].rows) :
        \A d \in 1..Len(sweep_instances) :
            InSeq(<<sweep_instances[d].param, Rows[t][d]>>, writers[w].rows[t].setpoints)

\* C15: dond returns the triple of the only measurement group when there is
\* exactly one, and otherwise three tuples with one element per measurement
\* group, element i belonging to the i-th group.
C15_ReturnShape ==
    pc = "returned" =>
        LET N == Len(measurements.grouped_parameters)
        IN  /\ Len(meas_list) = N
            /\ N = 1 => result = [kind |-> "triple", datasets |-> <<1>>]
            /\ N # 1 => /\ result.kind = "tuples"
                        /\ Len(result.datasets) = N
                        /\ \A i \in 1..N : result.datasets[i] = i

\* an uninterrupted scan of two points for two measurement groups
C15_Witness ==
    /\ pc = "returned"
    /\ interrupted = "None"
    /\ Len(Rows) = 2
    /\ result = [kind |-> "tuples", datasets |-> <<1, 2>>]

\* C16: when a keyboard interrupt is raised at a step of the loop, the guard
\* records it, every opened writer is finalized and plotted with the
\* interrupted flag set, and only then does the interrupt reach the caller
\* (dond does not return normally).
C16_KeyboardInterrupt ==
    /\ (exc = "KeyboardInterrupt" /\ pc \in {"finally", "raised"}) =>
          /\ interrupted = "KeyboardInterrupt"
          /\ \A w \in 1..Len(writers) : ValuesOf(teardown, "finalize", w) = <<0>>
    /\ (exc = "KeyboardInterrupt" /\ pc = "raised") =>
          /\ Len(writers) = Len(meas_list)
          /\ \A w \in 1..Len(writers) : ValuesOf(teardown, "plot", w) = <<1>>
    /\ interrupted = "KeyboardInterrupt" => pc # "returned" /\ exc = "KeyboardInterrupt"

\* a keyboard interrupt during a post action of the second grid point
C16_Witness ==
    /\ pc = "raised"
    /\ exc = "KeyboardInterrupt"
    /\ point = 2
    /\ events[Len(events)].op = "act"
    /\ teardown = <<Event("finalize", 2, 0), Event("finalize", 1, 0),
                    Event("plot", 1, 1), Event("plot", 2, 1)>>

\* the last call of the loop was the measured read: it raised
ReadRaised == events # <<>> /\ events[Len(events)].op = "read"

\* C17: an error raised by the measured read at grid point k reaches the
\* caller of dond as that same error, after every open writer has been
\* finalized; the rows of points 1..k-1 are in the writers, the row of point k
\* is not.
C17_ReadErrorPropagates ==
    (ReadRaised /\ exc # "KeyboardInterrupt") =>
        /\ pc \in {"exiting", "finally", "raised"}
        /\ exc = "ValueError"
        /\ \A w \in 1..Len(writers) :
              /\ Len(writers[w].rows) = point - 1
              /\ \A t \in 1..point - 1 : writers[w].rows[t] = RowAt(w, t)
        /\ pc \in {"finally", "raised"} =>
              \A w \in 1..Len(writers) : ValuesOf(teardown, "finalize", w) = <<0>>

\* the read of the second grid point raised, with two writers open
C17_Witness ==
    /\ ReadRaised
    /\ pc = "raised"
    /\ exc = "ValueError"
    /\ point = 2
    /\ Len(writers) = 2
    /\ \A w \in 1..2 : writers[w].rows = <<RowAt(w, 1)>>

\* the shape detection raises for the measured parameters of this scan
DetectShapeRaises ==
    ~detect_shape_of_measurement(measurements.measured_parameters,
                                 sweeper.shape.val).ok

\* C18: a failure of the shape inference never aborts the scan: dond goes on
\* with shapes = None, registers every writer and processes the grid as
\* usual (every row submitted, all rows after an uninterrupted run).
C18_ShapeFailureNotFatal ==
    (pc # "dond" /\ DetectShapeRaises) =>
        /\ ~(pc = "raised" /\ exc = "TypeError")
        /\ Len(meas_list) = Len(measurements.grouped_parameters)
        /\ \A i \in 1..Len(meas_list) : meas_list[i].shapes = NoShapes
        /\ \A w \in 1..Len(writers) : \A t \in 1..Len(writers[w].rows) :
              writers[w].rows[t] = RowAt(w, t)
        /\ (pc = "returned" /\ interrupted = "None") =>
              /\ Len(writers) = Len(meas_list)
              /\ \A w \in 1..Len(writers) : Len(writers[w].rows) = Len(Rows)

\* a scan of four grid points has run to its end without known shapes
C18_Witness ==
    /\ pc = "returned"
    /\ interrupted = "None"
    /\ DetectShapeRaises
    /\ meas_list[1].shapes = NoShapes
    /\ Len(Rows) = 4
    /\ Len(writers[1].rows) = 4

(***************************************************************************)
(* Claims about the parameter sets and the order of the calls of one       *)
(* iteration.                                                              *)
(***************************************************************************)
\* the step is one pass of the loop body at the grid point `point`
IterationStep ==
    /\ pc = "running"
    /\ point <= Len(Rows)
    /\ (point' # point \/ pc' # pc)

\* C19 as stated: at every grid point after the first, no hardware set is
\* made on the parameter of a dimension whose value equals its value in the
\* preceding row, whatever the parameter's cache holds.
C19_NoSetForUnchangedDimension ==
    [][(IterationStep /\ 1 < point) =>
          \A d \in 1..Len(Rows[point]) :
             Rows[point][d] = Rows[point - 1][d] =>
                ValuesOf(events', "set", sweeper.params_set.val[d]) = <<>>]_vars

\* C19, amended: at every grid point the conditional set is made for every
\* dimension, changed or not: the hardware set of a dimension's parameter
\* happens, once and with the row's value, if and only if the row's value
\* differs from the parameter's cached value; so an unchanged dimension is
\* not set while its cache still holds the value, and is set again when the
\* cache has come to hold another value.
C19_SetFollowsCache ==
    [][IterationStep =>
          \A d \in 1..Len(Rows[point]) :
             LET p == sweeper.params_set.val[d]
                 sets == ValuesOf(events', "set", p)
             IN  /\ Rows[point][d] = cache[p] => sets = <<>>
                 /\ sets \in {<<>>, <<Rows[point][d]>>}
                 /\ (pc' = "running" /\ Rows[point][d] # cache[p]) =>
                       sets = <<Rows[point][d]>>]_vars

\* after the second of the points (0, 0), (0, 1): the first dimension did not
\* change, its parameter's cache had come to hold 1, and it was set to 0 again
C19_Witness ==
    /\ pc = "running"
    /\ point = 3
    /\ Len(sweep_instances) = 2
    /\ Rows[1] = <<0, 0>>
    /\ Rows[2] = <<0, 1>>
    /\ ValuesOf(events, "set", sweeper.params_set.val[1]) = <<0>>
    /\ ValuesOf(events, "act", 1) = <<>>
    /\ cache[sweeper.params_set.val[1]] = 0

\* where in the log the calls of one of the kinds `ops` are
OpsAt(log, ops) == {i \in 1..Len(log) : log[i].op \in ops}

\* C20: in every iteration the Parameter Value Caller is called exactly once,
\* after every conditional set, post action and delay of the grid point and
\* before any add_result; the break condition is polled at most once, last,
\* and only after every writer has received the point's row.
C20_CallOrder ==
    [][IterationStep =>
          LET ev == events'
              reads == OpsAt(ev, {"read"})
              polls == OpsAt(ev, {"poll"})
          IN  /\ Cardinality(reads) <= 1
              /\ pc' = "running" => Cardinality(reads) = 1
              /\ \A i \in OpsAt(ev, {"set", "act", "sleep"}) : \A r \in reads : i < r
              /\ \A i \in OpsAt(ev, {"add", "poll"}) : \E r \in reads : r < i
              /\ reads # {} =>
                    \A d \in 1..Len(Rows[point]) :
                       /\ Cardinality(PositionsOf(ev, "sleep", d)) = 1
                       /\ ValuesOf(ev, "act", d) \in {<<>>, sweep_instances[d].post_actions}
                       /\ Rows[point][d] # cache[sweeper.params_set.val[d]] =>
                             PositionsOf(ev, "set", sweeper.params_set.val[d]) # {}
              /\ Cardinality(polls) <= 1
              /\ \A q \in polls :
                    /\ q = Len(ev)
                    /\ \A w \in 1..Len(writers) :
                          /\ Cardinality(PositionsOf(ev, "add", w - 1)) = 1
                          /\ writers'[w].rows = Append(writers[w].rows, RowAt(w, point))]_vars

\* the second grid point of a scan with two writers: a set, the delays, the
\* one read, the two add_result calls and the poll, in this order
C20_Witness ==
    /\ pc = "running"
    /\ point = 3
    /\ Len(writers) = 2
    /\ Len(events) >= 6
    /\ events[1].op = "set"
    /\ LET r == Len(events) - 3
       IN  /\ OpsAt(events, {"read"}) = {r}
           /\ events[r - 1].op = "sleep"
           /\ events[r + 1] = Event("add", 0, 0)
           /\ events[r + 2] = Event("add", 1, 0)
           /\ events[r + 3] = Event("poll", 0, 0)
    /\ \A w \in 1..2 : Len(writers[w].rows) = 2

(***************************************************************************)
(* Claims about the rows the writers receive.                              *)
(***************************************************************************)
\* C21 as stated: the additional setpoints are read in every iteration, and
\* the row of grid point k carries the values read during iteration k.
C21_AdditionalReadPerIteration ==
    \A w \in 1..Len(writers) : \A t \in 1..Len(writers[w].rows) :
        writers[w].rows[t].additional = process_params_meas(additional_setpoints, t)

\* C21, amended: the additional setpoints are read once per scan, when the
\* writers are opened and before the first grid point; the pairs read then
\* are never replaced and every row of every writer carries them, so a later
\* change of an additional setpoint parameter is not reflected in any row.
C21_AdditionalReadOncePerScan ==
    /\ [](\A w \in 1..Len(writers) : \A t \in 1..Len(writers[w].rows) :
             writers[w].rows[t].additional
                 = process_params_meas(additional_setpoints, 0))
    /\ [][pc # "enter" => additional_setpoints_data' = additional_setpoints_data]_vars

\* the second row of a finished scan carries the value the additional
\* setpoint had before the loop, not the one it has at the second point
C21_Witness ==
    /\ pc = "returned"
    /\ additional_setpoints = <<91>>
    /\ Len(writers[1].rows) >= 2
    /\ writers[1].rows[2].additional = << <<91, MeasuredValue(91, 0)>> >>
    /\ process_params_meas(additional_setpoints, 2) # writers[1].rows[2].additional

\* C22: each writer receives exactly one add_result per processed grid point:
\* between two iterations every writer holds as many rows as grid points were
\* processed, and after an uninterrupted run every writer holds one row per
\* row of nested_setpoints, in that order.
C22_OneRowPerPoint ==
    /\ [](/\ pc = "running" =>
                \A w \in 1..Len(writers) : Len(writers[w].rows) = point - 1
          /\ (pc = "returned" /\ interrupted = "None") =>
                \A w \in 1..Len(writers) :
                   /\ Len(writers[w].rows) = Len(Rows)
                   /\ \A t \in 1..Len(Rows) : writers[w].rows[t] = RowAt(w, t))
    /\ [][(IterationStep /\ pc' = "running") =>
             \A w \in 1..Len(writers) :
                /\ Cardinality(PositionsOf(events', "add", w - 1)) = 1
                /\ writers'[w].rows = Append(writers[w].rows, RowAt(w, point))]_vars

\* two writers after an uninterrupted scan of the grid (0,0), (0,1), (1,0), (1,1)
C22_Witness ==
    /\ pc = "returned"
    /\ interrupted = "None"
    /\ Len(writers) = 2
    /\ Rows = << <<0, 0>>, <<0, 1>>, <<1, 0>>, <<1, 1>> >>
    /\ \A w \in 1..2 : Len(writers[w].rows) = 4
    /\ [t \in 1..4 |-> [i \in 1..2 |-> writers[1].rows[t].setpoints[i][2]]] = Rows

(***************************************************************************)
(* Claims about the setpoint groups and the composite sweeps.              *)
(***************************************************************************)
\* the composite sweeps of the plan
Composites == {i \in 1..Len(sweep_instances) : ~isAbstractSweep(sweep_instances[i])}

\* C23: for every sweep list, the parameter of every non-composite sweep is in
\* every setpoint group, the i-th member of a composite is in group_i only,
\* the additional setpoints end every group's list, and there are as many
\* groups as the composite has members (one group without a composite).
C23_SetpointGrouping ==
    sweeper.parameter_groups # Unset =>
        LET groups == sweeper.parameter_groups.val
            n_add == Len(additional_setpoints)
        IN  /\ \A i \in 1..Len(sweep_instances) : \A g \in 1..Len(groups) :
                  IF isAbstractSweep(sweep_instances[i])
                  THEN InSeq(sweep_instances[i].param, groups[g].params)
                  ELSE \A j \in 1..Len(sweep_instances[i].sweeps) :
                          InSeq(sweep_instances[i].sweeps[j].param, groups[g].params)
                              <=> groups[g].key = j - 1
            /\ \A g \in 1..Len(groups) :
                  /\ Len(groups[g].params) >= n_add
                  /\ SubSeq(groups[g].params, Len(groups[g].params) - n_add + 1,
                            Len(groups[g].params)) = additional_setpoints
            /\ IF Composites = {}
               THEN Len(groups) = 1
               ELSE \A i \in Composites : Len(groups) = Len(sweep_instances[i].sweeps)

\* C24: every MultiSweep that exists has members of one and the same
\* num_points, so that its setpoints pair the i-th values of all members for
\* every i, with no value left out and no access out of range.
C24_CompositeEqualLengths ==
    sweeper.nested_setpoints # Unset =>
        \A i \in Composites :
            LET m == sweep_instances[i]
                setpoints == MultiSweep_get_setpoints(m)
            IN  /\ \A j \in 1..Len(m.sweeps) :
                      num_points(m.sweeps[j]) = MultiSweep_num_points(m)
                /\ setpoints.ok
                /\ \A j \in 1..Len(m.sweeps) :
                      Len(setpoints.val.data) = Len(m.sweeps[j].setpoints)

(***************************************************************************)
(* Claims about the routing of the measured values.                        *)
(***************************************************************************)
\* C25: whatever the measured input (bare entities, bundles or both), every
\* entity of measured_all is in the parameter list of some measurement group,
\* so every pair the Parameter Value Caller returns is routed to some group
\* and no measured value is dropped.
C25_NoMeasuredValueDropped ==
    /\ pc # "Measurements_init" =>
          \A i \in 1..Len(measurements.measured_all) :
             \E g \in 1..Len(Grouped) :
                InSeq(measurements.measured_all[i], Grouped[g].params)
    /\ pc = "routed" =>
          \A i \in 1..Len(meas_value_pair) :
             \E g \in 1..Len(Grouped) :
                InSeq(meas_value_pair[i], Grouped[g].measured_params)

(***************************************************************************)
(* Claims about a failure before the loop and about the loop's             *)
(* per-dimension sequences.                                                *)
(***************************************************************************)
\* entering the caller or opening a writer has raised: the Measurement
\* objects exist and the name datasavers was never bound
AcquisitionFailed ==
    /\ meas_list # <<>>
    /\ ~datasavers
    /\ pc \in {"exiting", "finally", "raised"}

\* C26: when entering the Parameter Value Caller or opening the writer of a
\* group raises before the loop starts, the writers opened so far are
\* finalized and dond raises that original error, not one of the teardown.
C26_AcquisitionFailure ==
    AcquisitionFailed =>
        /\ pc \in {"finally", "raised"} =>
              \A w \in 1..Len(writers) :
                 writers[w].completed = 1 /\ ValuesOf(teardown, "finalize", w) = <<0>>
        /\ pc = "raised" => exc = "Error"

\* C27: for every plan whose grid could be built, composites included, the
\* _Sweeper is constructed and params_set, post_delays, post_actions and the
\* initial previous_setpoints vector (one entry per sweep instance) have one
\* entry per column of a row of nested_setpoints.
C27_OneEntryPerColumn ==
    (pc \in {"constructed", "raised"} /\ sweeper.nested_setpoints.ok) =>
        /\ pc = "constructed"
        /\ \A t \in 1..Len(sweeper.nested_setpoints.val) :
              LET columns == Len(sweeper.nested_setpoints.val[t])
              IN  /\ Len(sweeper.params_set.val) = columns
                  /\ Len(sweeper.post_delays.val) = columns
                  /\ Len(sweeper.post_actions.val) = columns
                  /\ Len(sweep_instances) = columns

====
